---------------------------- MODULE Spec2Model ----------------------------
(***************************************************************************)
(* Webhook relay: the ingest and search handlers of                        *)
(* webhook-service/app/main.py and the delivery task of                    *)
(* webhook-service/app/tasks.py, over the shared event collection and the  *)
(* job queue; the rate-limited receiver of downstream-service/app/main.py. *)
(*                                                                         *)
(* The event collection is a sequence of documents; a document's _id is    *)
(* its position.  Every store call of the code (insert_one, find_one,      *)
(* find_one_and_update, update_one) is one atomic step.                    *)
(***************************************************************************)
EXTENDS Integers, Sequences, FiniteSets, TLC

VARIABLES
    store,      \* db.events: sequence of event documents, _id = index
    req,        \* ingest requests: handler position and locals
    queue,      \* job queue: event_id -> number of messages waiting
    job,        \* worker jobs (one run of deliver_webhook each)
    metrics,    \* the four Prometheus counters
    faults,     \* number of store / transport errors injected so far
    hist,       \* history: per event, successful claims and RECEIVED periods
    redis,      \* downstream-service: rate-limit keys, count and expiry per IP
    now,        \* clock, in ticks
    call,       \* downstream-service: the request receive_event handled last
    window,     \* history: per IP, the calls of the current rate-limit window
    search      \* webhook-service: the search request and its response

vars == <<store, req, queue, job, metrics, faults, hist,
          redis, now, call, window, search>>

\* the variables of downstream-service
downstream == <<redis, now, call, window>>

-----------------------------------------------------------------------------
(* Bounds of the model *)

MaxRequests == 2    \* ingest requests
MaxPayloads == 3    \* payloads over all batches
NumKeys     == 1    \* distinct idempotency_key strings
MaxJobs     == 2    \* worker jobs (queue deliveries consumed)
MaxPosts    == 6    \* outbound POSTs over all jobs
MaxFaults   == 1    \* store errors and transport errors over a run
MaxCalls    == 5    \* downstream requests per IP within one window
MaxTime     == 4    \* clock ticks
TicksPerSecond == 2 \* resolution of the clock

(* Program constants *)

max_attempts == 5                       \* tasks.py:83
backoff      == <<1, 2, 4, 8, 16>>      \* tasks.py:84
RATE_LIMIT   == 3                       \* downstream-service main.py:18
WINDOW       == 1                       \* downstream-service main.py:19, seconds

-----------------------------------------------------------------------------
(* Values *)

Null == "None"                          \* Python None / BSON null

Keys == {"k" \o ToString(n) : n \in 1..NumKeys}

\* what event_payload.get("idempotency_key") can return
PayloadKeys == Keys \cup {Null}

Requests == 1..MaxRequests
Jobs     == 1..MaxJobs

RECURSIVE SeqsUpTo(_, _)
SeqsUpTo(S, n) ==
    IF n = 0 THEN {<<>>}
    ELSE LET shorter == SeqsUpTo(S, n - 1)
         IN  shorter \cup {Append(s, x) : s \in {t \in shorter : Len(t) = n - 1}, x \in S}

RECURSIVE SumLens(_, _)
SumLens(f, S) ==
    IF S = {} THEN 0
    ELSE LET x == CHOOSE y \in S : TRUE
         IN  Len(f[x]) + SumLens(f, S \ {x})

-----------------------------------------------------------------------------
(* The event document: WebhookEvent(...).dict(by_alias=True).  dict() emits *)
(* every field of the model, so idempotency_key is always a field of the    *)
(* stored document, with value None when the payload has no key.            *)

WebhookEvent(idempotency_key) ==
    [ idempotency_key   |-> idempotency_key,
      status            |-> "RECEIVED",
      locked_at         |-> 0,
      delivery_attempts |-> <<>> ]

(* The unique, sparse index on idempotency_key.  A sparse index leaves out  *)
(* only the documents that lack the field; a document whose field is null   *)
(* is indexed like any other, so two null keys are a duplicate.             *)
InIndex(doc) == "idempotency_key" \in DOMAIN doc

\* mutant: the index is created without unique=True
DuplicateKeyNotUnique(doc) == FALSE

DuplicateKey(doc) ==
    \E e \in DOMAIN store :
        /\ InIndex(store[e])
        /\ InIndex(doc)
        /\ store[e].idempotency_key = doc.idempotency_key

\* find_one({"idempotency_key": key}, {"_id": 1}): first match in natural order
FindByKey(key) ==
    LET hits == {e \in DOMAIN store : store[e].idempotency_key = key}
    IN  IF hits = {} THEN 0
        ELSE CHOOSE e \in hits : \A f \in hits : e <= f

-----------------------------------------------------------------------------
(* Queue messages, jobs, counters *)

\* ids a queue message can carry: the _id of a stored event (1..), a
\* well-formed id of no document (0), a string that is no ObjectId (-1)
QueueIds == (0 - 1)..MaxPayloads

\* http_status = None: no response was received.  No HTTP status is 0, and
\* an integer keeps a job's http_status comparable with a received status.
NoStatus == 0

NewJob ==
    [ pc          |-> "idle",
      event_id    |-> 0,
      attempt     |-> 0,
      http_status |-> NoStatus,
      success     |-> FALSE,
      result      |-> "none",
      posts       |-> 0,
      slept       |-> 0 ]

NoMetrics ==
    [ events_received       |-> 0,
      deliveries_successful |-> 0,
      deliveries_failed     |-> 0,
      retry_attempts        |-> 0 ]

RECURSIVE SumQueue(_)
SumQueue(S) ==
    IF S = {} THEN 0
    ELSE LET x == CHOOSE y \in S : TRUE
         IN  queue[x] + SumQueue(S \ {x})

RECURSIVE SumPosts(_)
SumPosts(S) ==
    IF S = {} THEN 0
    ELSE LET x == CHOOSE y \in S : TRUE
         IN  job[x].posts + SumPosts(S \ {x})

-----------------------------------------------------------------------------
(* Ingest: POST /webhooks/ingest *)

\* The request body as the handler sees it.  kind tells what json.loads
\* makes of the bytes: "invalid" (it raises JSONDecodeError), "object" (one
\* JSON object) or "array" (a JSON array of objects); items holds, per
\* object, what its .get("idempotency_key") returns.
NoBody == [kind |-> "none", items |-> <<>>]

Bodies(n) ==
    {[kind |-> "invalid", items |-> <<>>]}
    \cup {[kind |-> "object", items |-> <<k>>] : k \in {x \in PayloadKeys : n > 0}}
    \cup {[kind |-> "array", items |-> b] : b \in SeqsUpTo(PayloadKeys, n)}

\* The X-Signature header, told by how it relates to the lowercase hex
\* HMAC-SHA256 digest of the body of the same request (distinct inputs are
\* taken to have distinct digests): no header at all, the digest itself, the
\* digest of a body that differs from this one in one byte, the digest with
\* one character replaced by another ASCII character, the digest with one
\* byte replaced by a byte above 0x7f (the server decodes header bytes as
\* latin-1, so the handler sees a non-ASCII str).
Signatures ==
    {Null, "hexdigest", "hexdigest_of_other_body",
     "hexdigest_ascii_changed", "hexdigest_non_ascii_changed"}

\* hmac.compare_digest accepts str arguments only when they are ASCII;
\* otherwise it raises TypeError
CompareDigestRaises(signature) == signature = "hexdigest_non_ascii_changed"

\* verify_hmac: compare_digest(hexdigest(HMAC(SECRET_KEY, body)), signature)
VerifyHmac(signature) == signature = "hexdigest"

\* json.loads(body) raises JSONDecodeError
JsonLoadsRaises(body) == body.kind = "invalid"

\* payload = json.loads(body): a list, or the one object
JsonLoads(body) ==
    IF body.kind = "array" THEN body.items ELSE body.items[1]

\* events = payload if isinstance(payload, list) else [payload]
Normalize(body) ==
    IF body.kind = "array" THEN JsonLoads(body) ELSE <<JsonLoads(body)>>

NewRequest ==
    [ pc              |-> "idle",
      body            |-> NoBody,
      signature       |-> Null,
      batch           |-> <<>>,
      response_events |-> <<>>,
      tasks           |-> <<>>,       \* background_tasks of the request
      status_code     |-> 0 ]

PayloadsUsed == SumLens([r \in Requests |-> req[r].body.items], Requests)

\* index into the batch of the payload the loop is at
Cursor(r) == Len(req[r].response_events) + 1

\* a store call may raise PyMongoError
StoreErrorPossible == faults < MaxFaults

\* the handler raises HTTPException(500): the response carries no background
\* tasks, so the ones already added are never run
Abort500(r) ==
    req' = [req EXCEPT ![r].pc = "done", ![r].status_code = 500, ![r].tasks = <<>>]

\* the handler raises HTTPException(code) before it has touched the store
Reject(r, body, signature, code) ==
    req' = [req EXCEPT ![r].pc = "done", ![r].body = body,
                       ![r].signature = signature, ![r].status_code = code]

\* a request arrives with a signature header out of the given set: the
\* handler reads the raw body and the X-Signature header, and checks the
\* signature (lines 199-208).  A TypeError out of compare_digest is caught
\* by the handler's except Exception: 500.
Arrive(r, signatures) ==
    /\ req[r].pc = "idle"
    /\ \A q \in Requests : q < r => req[q].pc # "idle"
    /\ \E signature \in signatures, body \in Bodies(MaxPayloads - PayloadsUsed) :
           IF signature = Null
           THEN Reject(r, body, signature, 400)
           ELSE IF CompareDigestRaises(signature)
           THEN Reject(r, body, signature, 500)
           ELSE IF ~VerifyHmac(signature)
           THEN Reject(r, body, signature, 401)
           ELSE req' = [req EXCEPT ![r].pc = "parse", ![r].body = body,
                                   ![r].signature = signature]
    /\ UNCHANGED <<downstream, search, store, queue, job, metrics, faults, hist>>

\* a request of a sender that holds the key and signs what it sends
Receive(r) == Arrive(r, {"hexdigest"})

\* a request of any sender
ReceiveAny(r) == Arrive(r, Signatures)

\* json.loads raised JSONDecodeError: HTTPException(400, "Invalid JSON")
ParseError(r) ==
    /\ req[r].pc = "parse"
    /\ JsonLoadsRaises(req[r].body)
    /\ req' = [req EXCEPT ![r].pc = "done", ![r].status_code = 400]
    /\ UNCHANGED <<downstream, search, store, queue, job, metrics, faults, hist>>

\* the body is parsed and normalized to a list of events
Parse(r) ==
    /\ req[r].pc = "parse"
    /\ ~JsonLoadsRaises(req[r].body)
    /\ req' = [req EXCEPT ![r].pc = "loop", ![r].batch = Normalize(req[r].body)]
    /\ UNCHANGED <<downstream, search, store, queue, job, metrics, faults, hist>>

\* insert_one succeeded: schedule the delivery, report idempotent: False
InsertOk(r) ==
    LET key      == req[r].batch[Cursor(r)]
        doc      == WebhookEvent(key)
        event_id == Len(store) + 1
    IN  /\ req[r].pc = "loop"
        /\ Cursor(r) <= Len(req[r].batch)
        /\ ~DuplicateKey(doc)
        /\ store' = Append(store, doc)
        /\ hist' = Append(hist, [claims |-> 0, received |-> 1])
        /\ metrics' = [metrics EXCEPT !.events_received = @ + 1]
        /\ req' = [req EXCEPT
               ![r].tasks = Append(@, event_id),
               ![r].response_events =
                   Append(@, [event_id |-> event_id, idempotent |-> FALSE])]
        /\ UNCHANGED <<downstream, search, queue, job, faults>>

\* insert_one raised DuplicateKeyError
InsertDuplicate(r) ==
    LET key == req[r].batch[Cursor(r)]
    IN  /\ req[r].pc = "loop"
        /\ Cursor(r) <= Len(req[r].batch)
        /\ DuplicateKey(WebhookEvent(key))
        /\ req' = [req EXCEPT ![r].pc = "lookup"]
        /\ UNCHANGED <<downstream, search, store, queue, job, metrics, faults, hist>>

\* insert_one raised another PyMongoError
InsertError(r) ==
    /\ req[r].pc = "loop"
    /\ Cursor(r) <= Len(req[r].batch)
    /\ StoreErrorPossible
    /\ faults' = faults + 1
    /\ Abort500(r)
    /\ UNCHANGED <<downstream, search, store, queue, job, metrics, hist>>

\* mutant: the replay branch schedules a delivery as the insert branch does
LookupExistingSchedules(r) ==
    LET key      == req[r].batch[Cursor(r)]
        existing == FindByKey(key)
    IN  /\ req[r].pc = "lookup"
        /\ existing # 0
        /\ req' = [req EXCEPT
               ![r].pc = "loop",
               ![r].tasks = Append(@, existing),
               ![r].response_events =
                   Append(@, [event_id |-> existing, idempotent |-> TRUE])]
        /\ UNCHANGED <<downstream, search, store, queue, job, metrics, faults, hist>>

\* the except DuplicateKeyError branch: find_one by key, report idempotent: True
LookupExisting(r) ==
    LET key      == req[r].batch[Cursor(r)]
        existing == FindByKey(key)
    IN  /\ req[r].pc = "lookup"
        /\ existing # 0
        /\ req' = [req EXCEPT
               ![r].pc = "loop",
               ![r].response_events =
                   Append(@, [event_id |-> existing, idempotent |-> TRUE])]
        /\ UNCHANGED <<downstream, search, store, queue, job, metrics, faults, hist>>

\* find_one raised inside the except branch: caught by except Exception
LookupError(r) ==
    /\ req[r].pc = "lookup"
    /\ StoreErrorPossible
    /\ faults' = faults + 1
    /\ Abort500(r)
    /\ UNCHANGED <<downstream, search, store, queue, job, metrics, hist>>

\* the loop is over: JSONResponse(200, response_events)
Respond(r) ==
    /\ req[r].pc = "loop"
    /\ Cursor(r) > Len(req[r].batch)
    /\ req' = [req EXCEPT ![r].pc = "background", ![r].status_code = 200]
    /\ UNCHANGED <<downstream, search, store, queue, job, metrics, faults, hist>>

\* after the response: deliver_webhook.delay(event_id, request_id)
RunBackgroundTask(r) ==
    /\ req[r].pc = "background"
    /\ req[r].tasks # <<>>
    /\ LET event_id == Head(req[r].tasks)
       IN  queue' = [queue EXCEPT ![event_id] = @ + 1]
    /\ req' = [req EXCEPT ![r].tasks = Tail(@)]
    /\ UNCHANGED <<downstream, search, store, job, metrics, faults, hist>>

-----------------------------------------------------------------------------
(* Delivery worker: deliver_webhook(event_id, request_id) *)

\* statuses a downstream response can carry
HttpStatuses == {200, 500}

\* mutant: every message id is taken for an ObjectId
IsObjectIdAnything(id) == TRUE

\* ObjectId(event_id) does not raise
IsObjectId(id) == id >= 0

\* mutant: the claim filters on _id alone
ClaimFilterAnyStatus(id) == id \in DOMAIN store

\* the filter of the claim: {"_id": obj_id, "status": "RECEIVED"}
ClaimFilter(id) ==
    /\ id \in DOMAIN store
    /\ store[id].status = "RECEIVED"

\* mutant: every 2xx status counts as a success
IsSuccess2xx(http_status) == http_status \in 200..299

\* success = http_status == 200
IsSuccess(http_status) == http_status = 200

\* mutant: the status written with an attempt does not depend on its outcome
AttemptStatusAlwaysDelivered(success) == "DELIVERED"

\* "$set": {"status": "DELIVERED" if success else "RECEIVED"}
AttemptStatus(success) == IF success THEN "DELIVERED" ELSE "RECEIVED"

\* the record pushed to delivery_attempts (its timestamp left out)
AttemptRecord(j) ==
    [ attempt_number   |-> job[j].attempt + 1,
      http_status_code |-> job[j].http_status,
      success          |-> job[j].success ]

\* history: a write that takes the event into RECEIVED opens a RECEIVED period
NoteStatus(e, status) ==
    IF status = "RECEIVED" /\ store[e].status # "RECEIVED"
    THEN [hist EXCEPT ![e].received = @ + 1]
    ELSE hist

JobsStarted == Cardinality({j \in Jobs : job[j].pc # "idle"})

MessagesWaiting == SumQueue(QueueIds)

PostsMade == SumPosts(Jobs)

\* a worker process takes a message: job slots are used in order
Takes(j, id) ==
    /\ job[j].pc = "idle"
    /\ \A i \in Jobs : i < j => job[i].pc # "idle"
    /\ queue[id] > 0

\* ObjectId(event_id) raised: count a failed delivery and return
InvalidEventId(j, id) ==
    /\ Takes(j, id)
    /\ ~IsObjectId(id)
    /\ queue' = [queue EXCEPT ![id] = @ - 1]
    /\ job' = [job EXCEPT ![j].pc = "done", ![j].event_id = id,
                          ![j].result = "invalid_event_id"]
    /\ metrics' = [metrics EXCEPT !.deliveries_failed = @ + 1]
    /\ UNCHANGED <<downstream, search, store, req, faults, hist>>

\* find_one_and_update raised PyMongoError
ClaimError(j, id) ==
    /\ Takes(j, id)
    /\ IsObjectId(id)
    /\ StoreErrorPossible
    /\ faults' = faults + 1
    /\ queue' = [queue EXCEPT ![id] = @ - 1]
    /\ job' = [job EXCEPT ![j].pc = "done", ![j].event_id = id,
                          ![j].result = "claim_error"]
    /\ metrics' = [metrics EXCEPT !.deliveries_failed = @ + 1]
    /\ UNCHANGED <<downstream, search, store, req, hist>>

\* find_one_and_update matched nothing: event_already_claimed_or_missing
ClaimMiss(j, id) ==
    /\ Takes(j, id)
    /\ IsObjectId(id)
    /\ ~ClaimFilter(id)
    /\ queue' = [queue EXCEPT ![id] = @ - 1]
    /\ job' = [job EXCEPT ![j].pc = "done", ![j].event_id = id,
                          ![j].result = "not_claimed"]
    /\ UNCHANGED <<downstream, search, store, req, metrics, faults, hist>>

\* find_one_and_update matched: status and locked_at set in the same update
Claim(j, id) ==
    /\ Takes(j, id)
    /\ IsObjectId(id)
    /\ ClaimFilter(id)
    /\ queue' = [queue EXCEPT ![id] = @ - 1]
    /\ store' = [store EXCEPT ![id].status = "DELIVERING",
                              ![id].locked_at = hist[id].claims + 1]
    /\ hist' = [hist EXCEPT ![id].claims = @ + 1]
    /\ job' = [job EXCEPT ![j].pc = "post", ![j].event_id = id,
                          ![j].result = "claimed"]
    /\ UNCHANGED <<downstream, search, req, metrics, faults>>

\* httpx.post returned a response with status s
PostAnswered(j, s) ==
    /\ job[j].pc = "post"
    /\ PostsMade < MaxPosts
    /\ job' = [job EXCEPT ![j].pc = "record", ![j].posts = @ + 1,
                          ![j].http_status = s, ![j].success = IsSuccess(s)]
    /\ UNCHANGED <<downstream, search, store, req, queue, metrics, faults, hist>>

\* httpx.post returned a response
PostResponse(j) == \E s \in HttpStatuses : PostAnswered(j, s)

\* httpx.post raised httpx.RequestError
PostTransportError(j) ==
    /\ job[j].pc = "post"
    /\ PostsMade < MaxPosts
    /\ faults < MaxFaults
    /\ faults' = faults + 1
    /\ job' = [job EXCEPT ![j].pc = "record", ![j].posts = @ + 1,
                          ![j].http_status = NoStatus, ![j].success = FALSE]
    /\ UNCHANGED <<downstream, search, store, req, queue, metrics, hist>>

\* mutant: the job sleeps backoff[attempt] after every failed attempt, the
\* last one included
AfterAttemptSleepsAfterLast(j) ==
    IF job[j].success
    THEN /\ metrics' = [metrics EXCEPT !.deliveries_successful = @ + 1]
         /\ job' = [job EXCEPT ![j].pc = "done", ![j].result = "delivered"]
    ELSE IF job[j].attempt < max_attempts - 1
    THEN /\ metrics' = [metrics EXCEPT !.deliveries_failed = @ + 1,
                                       !.retry_attempts = @ + 1]
         /\ job' = [job EXCEPT ![j].pc = "post",
                               ![j].slept = @ + backoff[job[j].attempt + 1],
                               ![j].attempt = @ + 1]
    ELSE /\ metrics' = [metrics EXCEPT !.deliveries_failed = @ + 1]
         /\ job' = [job EXCEPT ![j].pc = "final",
                               ![j].slept = @ + backoff[job[j].attempt + 1]]

\* mutant: the retry counter is incremented after the last attempt as well
AfterAttemptRetriesAfterLast(j) ==
    IF job[j].success
    THEN /\ metrics' = [metrics EXCEPT !.deliveries_successful = @ + 1]
         /\ job' = [job EXCEPT ![j].pc = "done", ![j].result = "delivered"]
    ELSE IF job[j].attempt < max_attempts - 1
    THEN /\ metrics' = [metrics EXCEPT !.deliveries_failed = @ + 1,
                                       !.retry_attempts = @ + 1]
         /\ job' = [job EXCEPT ![j].pc = "post",
                               ![j].slept = @ + backoff[job[j].attempt + 1],
                               ![j].attempt = @ + 1]
    ELSE /\ metrics' = [metrics EXCEPT !.deliveries_failed = @ + 1,
                                       !.retry_attempts = @ + 1]
         /\ job' = [job EXCEPT ![j].pc = "final"]

\* mutant: the loop goes on to the next attempt after a successful one
AfterAttemptGoesOnAfter200(j) ==
    IF job[j].attempt < max_attempts - 1
    THEN /\ metrics' = [metrics EXCEPT !.deliveries_failed = @ + 1,
                                       !.retry_attempts = @ + 1]
         /\ job' = [job EXCEPT ![j].pc = "post",
                               ![j].slept = @ + backoff[job[j].attempt + 1],
                               ![j].attempt = @ + 1]
    ELSE /\ metrics' = [metrics EXCEPT !.deliveries_failed = @ + 1]
         /\ job' = [job EXCEPT ![j].pc = "final"]

\* lines 119-136: count the attempt, return on success, else back off
AfterAttempt(j) ==
    IF job[j].success
    THEN /\ metrics' = [metrics EXCEPT !.deliveries_successful = @ + 1]
         /\ job' = [job EXCEPT ![j].pc = "done", ![j].result = "delivered"]
    ELSE IF job[j].attempt < max_attempts - 1
    THEN /\ metrics' = [metrics EXCEPT !.deliveries_failed = @ + 1,
                                       !.retry_attempts = @ + 1]
         /\ job' = [job EXCEPT ![j].pc = "post",
                               ![j].slept = @ + backoff[job[j].attempt + 1],
                               ![j].attempt = @ + 1]
    ELSE /\ metrics' = [metrics EXCEPT !.deliveries_failed = @ + 1]
         /\ job' = [job EXCEPT ![j].pc = "final"]

\* update_one({"_id": obj_id}, {$push: ..., $set: {status: ...}})
RecordAttempt(j) ==
    LET e      == job[j].event_id
        status == AttemptStatus(job[j].success)
    IN  /\ job[j].pc = "record"
        /\ store' = [store EXCEPT
               ![e].delivery_attempts = Append(@, AttemptRecord(j)),
               ![e].status = status]
        /\ hist' = NoteStatus(e, status)
        /\ AfterAttempt(j)
        /\ UNCHANGED <<downstream, search, req, queue, faults>>

\* that update_one raised PyMongoError: logged, the loop goes on
RecordError(j) ==
    /\ job[j].pc = "record"
    /\ StoreErrorPossible
    /\ faults' = faults + 1
    /\ AfterAttempt(j)
    /\ UNCHANGED <<downstream, search, store, req, queue, hist>>

\* after the loop: update_one({"_id": obj_id}, {$set: {status: FAILED_PERMANENTLY}})
FailPermanently(j) ==
    LET e == job[j].event_id
    IN  /\ job[j].pc = "final"
        /\ store' = [store EXCEPT ![e].status = "FAILED_PERMANENTLY"]
        /\ job' = [job EXCEPT ![j].pc = "done", ![j].result = "failed_permanently"]
        /\ UNCHANGED <<downstream, search, req, queue, metrics, faults, hist>>

\* that update_one raised PyMongoError
FailPermanentlyError(j) ==
    /\ job[j].pc = "final"
    /\ StoreErrorPossible
    /\ faults' = faults + 1
    /\ job' = [job EXCEPT ![j].pc = "done", ![j].result = "failed_permanently"]
    /\ UNCHANGED <<downstream, search, store, req, queue, metrics, hist>>

\* a message for id reaches the queue without ingest having scheduled it:
\* the broker delivers a late-acknowledged message again, or another
\* producer calls deliver_webhook.delay(id)
Redeliver(id) ==
    /\ id \in DOMAIN store \/ id <= 0
    /\ JobsStarted + MessagesWaiting < MaxJobs
    /\ queue' = [queue EXCEPT ![id] = @ + 1]
    /\ UNCHANGED <<downstream, search, store, req, job, metrics, faults, hist>>

-----------------------------------------------------------------------------
(* downstream-service: POST /downstream/receive behind the rate limiter.    *)
(* A rate-limit key is rate_limit:{ip}; redis[ip].count = 0 stands for a    *)
(* key that does not exist.  A key with an expiry is gone once the clock    *)
(* has reached expire_at.                                                   *)

\* what get_client_ip returns
ClientIps == {"ip1", "ip2"}

\* WINDOW in clock ticks
Window == WINDOW * TicksPerSecond

NoKey == [count |-> 0, expire_at |-> 0]

NoWindow ==
    [start |-> 0 - Window, calls |-> 0, errors |-> 0, admitted |-> 0, over |-> 0]

NoCall ==
    [ ip          |-> Null,
      limiter     |-> "none",
      current     |-> 0,
      allowed     |-> FALSE,
      position    |-> 0,
      errors      |-> 0,
      injected    |-> Null,
      status_code |-> 0,
      detail      |-> Null ]

\* RATE_LIMIT_SCRIPT: local current = redis.call("INCR", KEYS[1])
Incr(ip) == redis[ip].count + 1

\* mutant: every call of the script sets the expiry anew
AfterScriptAlwaysExpires(ip) ==
    [redis EXCEPT ![ip] =
        [ count     |-> Incr(ip),
          expire_at |-> now + Window ]]

\* RATE_LIMIT_SCRIPT: if current == 1 then redis.call("EXPIRE", KEYS[1], ARGV[2]) end
AfterScript(ip) ==
    [redis EXCEPT ![ip] =
        [ count     |-> Incr(ip),
          expire_at |-> IF Incr(ip) = 1 THEN now + Window ELSE @.expire_at ]]

\* mutant: the script admits one call more than the limit
ScriptResultOneMore(current) == IF current > RATE_LIMIT + 1 THEN 0 ELSE 1

\* RATE_LIMIT_SCRIPT: if current > tonumber(ARGV[1]) then return 0 end return 1
ScriptResult(current) == IF current > RATE_LIMIT THEN 0 ELSE 1

\* mutant: the limiter fails closed
OnRedisErrorDeny == FALSE

\* allow_request: except RedisError: ... return True  # fail-open
OnRedisError == TRUE

\* random.choices(["500", "429", "timeout", "success"], weights): every
\* weight is positive with FAILURE_RATE = 0.20, so each outcome can be drawn
FailureTypes == {"500", "429", "timeout", "success"}

\* the response of receive_event to an admitted request (the 2 to 5 seconds
\* a "timeout" sleeps before it answers are not counted on the clock)
Injected(failure_type) ==
    IF failure_type = "500"
    THEN [status_code |-> 500, detail |-> "Simulated internal error"]
    ELSE IF failure_type = "429"
    THEN [status_code |-> 429, detail |-> "Simulated external rate limit"]
    ELSE IF failure_type = "timeout"
    THEN [status_code |-> 200, detail |-> "received_with_delay"]
    ELSE [status_code |-> 200, detail |-> "received"]

\* mutant: a request that is turned down is answered as an injected 429
RateLimitedAsInjected == Injected("429")

\* the response to a request that allow_request turned down
RateLimited == [status_code |-> 429, detail |-> "Rate limit exceeded"]

\* history: the window of ip is running, i.e. fewer than WINDOW seconds
\* have passed since the increment that started it
InWindow(ip) == now < window[ip].start + Window

\* history: a call for ip is made now; ran tells whether the script was
\* executed, error whether the store call raised, result is what the script
\* returned (0 when it did not run); over is kept from the window before
NoteCall(ip, ran, error, result) ==
    LET e == IF error THEN 1 ELSE 0
    IN  IF InWindow(ip)
        THEN [window EXCEPT ![ip].calls = @ + 1, ![ip].errors = @ + e,
                            ![ip].admitted = @ + result]
        ELSE IF ran
        THEN [window EXCEPT ![ip] = [start |-> now, calls |-> 1, errors |-> e,
                                     admitted |-> result,
                                     over |-> window[ip].over]]
        ELSE window

\* receive_event from its call of allow_request on: a request that is not
\* allowed is answered 429 at once, an allowed one draws its failure type
Handle(ip, limiter, current, allowed) ==
    \E failure_type \in FailureTypes :
        LET response == IF allowed THEN Injected(failure_type) ELSE RateLimited
        IN  call' = [ ip          |-> ip,
                      limiter     |-> limiter,
                      current     |-> current,
                      allowed     |-> allowed,
                      position    |-> IF now < window'[ip].start + Window
                                      THEN window'[ip].calls ELSE 0,
                      errors      |-> IF now < window'[ip].start + Window
                                      THEN window'[ip].errors ELSE 0,
                      injected    |-> IF allowed THEN failure_type ELSE Null,
                      status_code |-> response.status_code,
                      detail      |-> response.detail ]

\* a request of ip can be made: calls per window are bounded
CanCall(ip) == InWindow(ip) => window[ip].calls < MaxCalls

\* evalsha ran the script and returned its result: allowed == 1
ScriptAnswers(ip) ==
    /\ CanCall(ip)
    /\ redis' = AfterScript(ip)
    /\ window' = NoteCall(ip, TRUE, FALSE, ScriptResult(Incr(ip)))
    /\ Handle(ip, "answered", Incr(ip), ScriptResult(Incr(ip)) = 1)
    /\ UNCHANGED <<store, req, queue, job, metrics, faults, hist, now, search>>

\* evalsha raised RedisError before the script ran (connection refused)
RedisErrorUnsent(ip) ==
    /\ CanCall(ip)
    /\ StoreErrorPossible
    /\ faults' = faults + 1
    /\ window' = NoteCall(ip, FALSE, TRUE, 0)
    /\ Handle(ip, "error", 0, OnRedisError)
    /\ UNCHANGED <<store, req, queue, job, metrics, hist, redis, now, search>>

\* evalsha raised RedisError after the script ran (the reply was lost)
RedisErrorAfterRun(ip) ==
    /\ CanCall(ip)
    /\ StoreErrorPossible
    /\ faults' = faults + 1
    /\ redis' = AfterScript(ip)
    /\ window' = NoteCall(ip, TRUE, TRUE, ScriptResult(Incr(ip)))
    /\ Handle(ip, "error", 0, OnRedisError)
    /\ UNCHANGED <<store, req, queue, job, metrics, hist, now, search>>

\* the clock advances; keys whose expiry it reaches are deleted.  History:
\* over is the number of increments beyond RATE_LIMIT that the key of ip had
\* counted when it expired last, i.e. the requests that the script turned
\* down in the window that ended last
Tick ==
    /\ now < MaxTime
    /\ now' = now + 1
    /\ redis' = [ip \in ClientIps |->
                    IF redis[ip].count > 0 /\ redis[ip].expire_at <= now + 1
                    THEN NoKey ELSE redis[ip]]
    /\ window' = [ip \in ClientIps |->
                    IF now + 1 < window[ip].start + Window
                    THEN window[ip]
                    ELSE [NoWindow EXCEPT !.over =
                             IF redis[ip].count > RATE_LIMIT
                             THEN redis[ip].count - RATE_LIMIT
                             ELSE IF redis[ip].count > 0 THEN 0
                             ELSE window[ip].over]]
    /\ UNCHANGED <<store, req, queue, job, metrics, faults, hist, call, search>>

-----------------------------------------------------------------------------
(* webhook-service: POST /webhooks/search.  A timestamp is a number of      *)
(* clock ticks; NoTime stands for a timestamp field that is absent (None).  *)

NoTime == 0

\* no search request
NoSearch == [pc |-> "none"]

\* an event document with the fields that search looks at
SearchEvent(status, event_type, received_at) ==
    [ idempotency_key   |-> Null,
      status            |-> status,
      locked_at         |-> 0,
      delivery_attempts |-> <<>>,
      event_type        |-> event_type,
      received_at       |-> received_at ]

\* a collection to search in
SearchSample ==
    << SearchEvent("RECEIVED", "order.created", 1),
       SearchEvent("DELIVERED", "order.created", 2),
       SearchEvent("RECEIVED", Null, 2),
       SearchEvent("FAILED_PERMANENTLY", "order.paid", 3) >>

\* request bodies: SearchWebhooksBody
SearchBodies ==
    [ status         : {Null, "RECEIVED", "DELIVERED"},
      event_type     : {Null, "order.created"},
      from_timestamp : {NoTime, 1, 2, 3},
      to_timestamp   : {NoTime, 1, 2, 3},
      skip           : {0 - 1, 0, 1},
      limit          : {0, 1, 2, 10} ]

\* Python truth value of an Optional[str]: None and "" are false
Truthy(x) == x # Null /\ x # ""

\* check_timestamps raises ValueError: the request is answered 422 before
\* the handler runs
check_timestamps(body) ==
    /\ body.from_timestamp # NoTime
    /\ body.to_timestamp # NoTime
    /\ body.to_timestamp <= body.from_timestamp

\* the query built at lines 322-335, as a predicate on documents
Matches(doc, body) ==
    /\ Truthy(body.status) => doc.status = body.status
    /\ Truthy(body.event_type) => doc.event_type = body.event_type
    /\ body.from_timestamp # NoTime => doc.received_at >= body.from_timestamp
    /\ body.to_timestamp # NoTime => doc.received_at <= body.to_timestamp

\* find(query): the ids of the matching documents in natural order
RECURSIVE Find(_, _)
Find(body, n) ==
    IF n = 0 THEN <<>>
    ELSE IF Matches(store[n], body)
    THEN Append(Find(body, n - 1), n)
    ELSE Find(body, n - 1)

\* cursor.skip(n) raises ValueError for a negative n
SkipRaises(skip) == skip < 0

\* cursor.skip(n)
Skip(ids, skip) == SubSeq(ids, skip + 1, Len(ids))

\* cursor.limit(n): a limit of 0 is no limit, a negative limit -n is n
Limit(ids, limit) ==
    LET n == IF limit < 0 THEN 0 - limit ELSE limit
    IN  IF limit = 0 \/ n >= Len(ids) THEN ids ELSE SubSeq(ids, 1, n)

\* the body does not validate: 422, search_webhooks is not called
SearchInvalid ==
    /\ search.pc = "idle"
    /\ check_timestamps(search.body)
    /\ search' = [search EXCEPT !.pc = "done", !.status_code = 422]
    /\ UNCHANGED <<store, req, queue, job, metrics, faults, hist, downstream>>

\* find, skip, limit and the aggregations succeed: 200 with data
Search ==
    LET body == search.body
    IN  /\ search.pc = "idle"
        /\ ~check_timestamps(body)
        /\ ~SkipRaises(body.skip)
        /\ search' = [search EXCEPT
               !.pc = "done", !.status_code = 200, !.queried = TRUE,
               !.data = Limit(Skip(Find(body, Len(store)), body.skip), body.limit)]
        /\ UNCHANGED <<store, req, queue, job, metrics, faults, hist, downstream>>

\* skip raised ValueError: caught by except Exception, 500
SearchSkipError ==
    /\ search.pc = "idle"
    /\ ~check_timestamps(search.body)
    /\ SkipRaises(search.body.skip)
    /\ search' = [search EXCEPT !.pc = "done", !.status_code = 500]
    /\ UNCHANGED <<store, req, queue, job, metrics, faults, hist, downstream>>

\* a store call raised PyMongoError: 500
SearchStoreError ==
    /\ search.pc = "idle"
    /\ ~check_timestamps(search.body)
    /\ ~SkipRaises(search.body.skip)
    /\ StoreErrorPossible
    /\ faults' = faults + 1
    /\ search' = [search EXCEPT !.pc = "done", !.status_code = 500, !.queried = TRUE]
    /\ UNCHANGED <<store, req, queue, job, metrics, hist, downstream>>

\* downstream-service and the search endpoint at rest
ElsewhereIdle ==
    /\ redis = [ip \in ClientIps |-> NoKey]
    /\ now = 0
    /\ call = NoCall
    /\ window = [ip \in ClientIps |-> NoWindow]
    /\ search = NoSearch

-----------------------------------------------------------------------------
(* Specification of the ingest pipeline *)

InitIngest ==
    /\ store = <<>>
    /\ hist = <<>>
    /\ req = [r \in Requests |-> NewRequest]
    /\ queue = [id \in QueueIds |-> 0]
    /\ job = [j \in Jobs |-> NewJob]
    /\ metrics = NoMetrics
    /\ faults = 0
    /\ ElsewhereIdle

NextIngest ==
    \E r \in Requests :
        \/ Receive(r)
        \/ ParseError(r)
        \/ Parse(r)
        \/ InsertOk(r)
        \/ InsertDuplicate(r)
        \/ InsertError(r)
        \/ LookupExisting(r)
        \/ LookupError(r)
        \/ Respond(r)
        \/ RunBackgroundTask(r)

SpecIngest == InitIngest /\ [][NextIngest]_vars

-----------------------------------------------------------------------------
(* Specification of the ingest endpoint open to any sender: as SpecIngest,  *)
(* with requests whose signature is missing or wrong.                       *)

NextFront ==
    \E r \in Requests :
        \/ ReceiveAny(r)
        \/ ParseError(r)
        \/ Parse(r)
        \/ InsertOk(r)
        \/ InsertDuplicate(r)
        \/ InsertError(r)
        \/ LookupExisting(r)
        \/ LookupError(r)
        \/ Respond(r)
        \/ RunBackgroundTask(r)

SpecFront == InitIngest /\ [][NextFront]_vars

-----------------------------------------------------------------------------
(* Specification of the delivery worker.  It starts where ingest has stored *)
(* one event and its background task has put the delivery job on the queue. *)

InitWorker ==
    /\ store = <<WebhookEvent(Null)>>
    /\ hist = <<[claims |-> 0, received |-> 1]>>
    /\ req = [r \in Requests |->
                IF r = 1
                THEN [ pc              |-> "background",
                       body            |-> [kind |-> "object", items |-> <<Null>>],
                       signature       |-> "hexdigest",
                       batch           |-> <<Null>>,
                       response_events |-> <<[event_id |-> 1, idempotent |-> FALSE]>>,
                       tasks           |-> <<>>,
                       status_code     |-> 200 ]
                ELSE NewRequest]
    /\ queue = [id \in QueueIds |-> IF id = 1 THEN 1 ELSE 0]
    /\ job = [j \in Jobs |-> NewJob]
    /\ metrics = [NoMetrics EXCEPT !.events_received = 1]
    /\ faults = 0
    /\ ElsewhereIdle

NextWorker ==
    \/ \E id \in QueueIds : Redeliver(id)
    \/ \E j \in Jobs, id \in QueueIds :
           \/ InvalidEventId(j, id)
           \/ ClaimError(j, id)
           \/ ClaimMiss(j, id)
           \/ Claim(j, id)
    \/ \E j \in Jobs :
           \/ PostResponse(j)
           \/ PostTransportError(j)
           \/ RecordAttempt(j)
           \/ RecordError(j)
           \/ FailPermanently(j)
           \/ FailPermanentlyError(j)

SpecWorker == InitWorker /\ [][NextWorker]_vars

-----------------------------------------------------------------------------
(* Specification of the delivery worker with a worker process that keeps    *)
(* running: a job that can take a step eventually takes one.  httpx.post    *)
(* returns or raises within its timeout of 10 seconds, time.sleep returns,  *)
(* and the store calls return or raise.                                     *)

\* the steps of deliver_webhook in job j
JobStep(j) ==
    \/ \E id \in QueueIds :
           \/ InvalidEventId(j, id)
           \/ ClaimError(j, id)
           \/ ClaimMiss(j, id)
           \/ Claim(j, id)
    \/ PostResponse(j)
    \/ PostTransportError(j)
    \/ RecordAttempt(j)
    \/ RecordError(j)
    \/ FailPermanently(j)
    \/ FailPermanentlyError(j)

\* a worker that runs one job at a time; a further message for an event
\* reaches the queue between two jobs
NextWorkerFair ==
    \/ \E id \in QueueIds :
           /\ \A j \in Jobs : job[j].pc \in {"idle", "done"}
           /\ MessagesWaiting = 0
           /\ Redeliver(id)
    \/ \E j \in Jobs : JobStep(j)

SpecWorkerFair ==
    /\ InitWorker
    /\ [][NextWorkerFair]_vars
    /\ \A j \in Jobs : WF_vars(JobStep(j))

-----------------------------------------------------------------------------
(* Specification of one delivery job against a downstream that answers a    *)
(* POST with any of several statuses, other 2xx codes among them.           *)

\* response.status_code of an answered POST
OutcomeStatuses == {200, 201, 429, 500}

NextOutcomes ==
    \/ \E j \in Jobs, id \in QueueIds :
           \/ ClaimError(j, id)
           \/ Claim(j, id)
    \/ \E j \in Jobs :
           \/ \E s \in OutcomeStatuses : PostAnswered(j, s)
           \/ PostTransportError(j)
           \/ RecordAttempt(j)
           \/ RecordError(j)
           \/ FailPermanently(j)
           \/ FailPermanentlyError(j)

SpecOutcomes == InitWorker /\ [][NextOutcomes]_vars

-----------------------------------------------------------------------------
(* Specification of the delivery worker against a downstream that answers   *)
(* every POST with 500.                                                     *)

NextAlways500 ==
    \/ \E id \in QueueIds : Redeliver(id)
    \/ \E j \in Jobs, id \in QueueIds :
           \/ InvalidEventId(j, id)
           \/ ClaimError(j, id)
           \/ ClaimMiss(j, id)
           \/ Claim(j, id)
    \/ \E j \in Jobs :
           \/ PostAnswered(j, 500)
           \/ RecordAttempt(j)
           \/ RecordError(j)
           \/ FailPermanently(j)
           \/ FailPermanentlyError(j)

SpecAlways500 == InitWorker /\ [][NextAlways500]_vars

-----------------------------------------------------------------------------
(* Specification of the whole relay, ingest to delivery, against a          *)
(* downstream that answers every POST with 200.  Every job on the queue is  *)
(* one that ingest has scheduled.                                           *)

NextRelay ==
    \/ \E r \in Requests :
           \/ Receive(r)
           \/ ParseError(r)
           \/ Parse(r)
           \/ InsertOk(r)
           \/ InsertDuplicate(r)
           \/ InsertError(r)
           \/ LookupExisting(r)
           \/ LookupError(r)
           \/ Respond(r)
           \/ RunBackgroundTask(r)
    \/ \E j \in Jobs, id \in QueueIds :
           \/ ClaimError(j, id)
           \/ Claim(j, id)
    \/ \E j \in Jobs :
           \/ PostAnswered(j, 200)
           \/ RecordAttempt(j)
           \/ RecordError(j)

SpecRelay == InitIngest /\ [][NextRelay]_vars

-----------------------------------------------------------------------------
(* Specification of the rate limiter of downstream-service: requests of     *)
(* several client IPs, served one after the other by receive_event.         *)

InitLimiter == InitIngest

NextLimiter ==
    \/ Tick
    \/ \E ip \in ClientIps :
           \/ ScriptAnswers(ip)
           \/ RedisErrorUnsent(ip)
           \/ RedisErrorAfterRun(ip)

SpecLimiter == InitLimiter /\ [][NextLimiter]_vars

-----------------------------------------------------------------------------
(* Specification of the search endpoint: one request, with any body of     *)
(* SearchBodies, against a collection that holds the first events of       *)
(* SearchSample.                                                            *)

InitSearch ==
    /\ \E n \in 0..Len(SearchSample) : store = SubSeq(SearchSample, 1, n)
    /\ hist = [e \in DOMAIN store |-> [claims |-> 0, received |-> 1]]
    /\ req = [r \in Requests |-> NewRequest]
    /\ queue = [id \in QueueIds |-> 0]
    /\ job = [j \in Jobs |-> NewJob]
    /\ metrics = NoMetrics
    /\ faults = 0
    /\ redis = [ip \in ClientIps |-> NoKey]
    /\ now = 0
    /\ call = NoCall
    /\ window = [ip \in ClientIps |-> NoWindow]
    /\ \E body \in SearchBodies :
           search = [pc |-> "idle", body |-> body, status_code |-> 0,
                     queried |-> FALSE, data |-> <<>>]

NextSearch ==
    \/ SearchInvalid
    \/ Search
    \/ SearchSkipError
    \/ SearchStoreError

SpecSearch == InitSearch /\ [][NextSearch]_vars

-----------------------------------------------------------------------------
(* Properties of the ingest pipeline (SpecIngest) *)

EventsWithKey(k) == {e \in DOMAIN store : store[e].idempotency_key = k}

\* <<r, i>>: request r has reported a result for element i of its batch, and
\* that element carries idempotency_key k (Null: it carries none)
ResultsFor(k) ==
    {x \in Requests \X (1..MaxPayloads) :
        /\ x[2] <= Len(req[x[1]].response_events)
        /\ req[x[1]].batch[x[2]] = k}

Result(x) == req[x[1]].response_events[x[2]]

\* C1, state part: per idempotency key the store holds at most one event,
\* every result reported for the key names that event, and at most one of
\* those results says idempotent: false
OneEventPerKey ==
    \A k \in Keys :
        /\ Cardinality(EventsWithKey(k)) <= 1
        /\ \A x \in ResultsFor(k) : Result(x).event_id \in EventsWithKey(k)
        /\ Cardinality({x \in ResultsFor(k) : ~Result(x).idempotent}) <= 1

\* C1, step part: a result reported for a keyed payload says idempotent:
\* false exactly when no event with the key was stored before that step
FirstFalseLaterTrue ==
    \A r \in Requests :
        Len(req'[r].response_events) > Len(req[r].response_events) =>
            LET i == Len(req'[r].response_events)
                k == req[r].batch[i]
            IN  k \in Keys =>
                    (req'[r].response_events[i].idempotent <=> EventsWithKey(k) # {})

\* C1: ingest requests that carry the same idempotency_key get the same
\* event_id, the first one idempotent: false and every later one idempotent:
\* true, and the store never holds two events with that key
C1_IdempotentIngest == []OneEventPerKey /\ [][FirstFalseLaterTrue]_vars

\* two answered requests carried the same key: same event, one first, one replay
C1_Witness ==
    \E k \in Keys : \E x, y \in ResultsFor(k) :
        /\ x[1] # y[1]
        /\ req[x[1]].status_code = 200
        /\ req[y[1]].status_code = 200
        /\ Result(x).event_id = Result(y).event_id
        /\ ~Result(x).idempotent
        /\ Result(y).idempotent

\* C9: every payload without idempotency_key is stored as an event of its
\* own: its result says idempotent: false and no two such results name the
\* same event
C9_AbsentKeysDoNotCollide ==
    /\ \A x \in ResultsFor(Null) : ~Result(x).idempotent
    /\ \A x, y \in ResultsFor(Null) :
           x # y => Result(x).event_id # Result(y).event_id

RECURSIVE CountIn(_, _)
CountIn(seq, v) ==
    IF seq = <<>> THEN 0
    ELSE (IF Head(seq) = v THEN 1 ELSE 0) + CountIn(Tail(seq), v)

RECURSIVE SumTasks(_, _)
SumTasks(S, e) ==
    IF S = {} THEN 0
    ELSE LET r == CHOOSE q \in S : TRUE
         IN  CountIn(req[r].tasks, e) + SumTasks(S \ {r}, e)

\* delivery jobs ingest holds for event e: background tasks added and not
\* yet run, and messages put on the queue
Scheduled(e) == SumTasks(Requests, e) + queue[e]

\* C10: ingest schedules at most one delivery job per event, and a request
\* schedules one only for an event it has inserted itself (a result it
\* reports with idempotent: false)
C10_ReplaySchedulesNothing ==
    /\ \A e \in DOMAIN store : Scheduled(e) <= 1
    /\ \A r \in Requests : \A t \in 1..Len(req[r].tasks) :
           \E i \in 1..Len(req[r].response_events) :
               /\ req[r].response_events[i].event_id = req[r].tasks[t]
               /\ ~req[r].response_events[i].idempotent

\* a replay has been answered and its event has exactly the one job of the
\* request that inserted it
C10_Witness ==
    \E k \in Keys : \E x \in ResultsFor(k) :
        /\ Result(x).idempotent
        /\ req[x[1]].pc = "background"
        /\ req[x[1]].tasks = <<>>
        /\ queue[Result(x).event_id] = 1

-----------------------------------------------------------------------------
(* Properties of the delivery worker (SpecWorker) *)

Holding == {"post", "record", "final"}

Holders(e) == {j \in Jobs : job[j].pc \in Holding /\ job[j].event_id = e}

Terminal == {"DELIVERED", "FAILED_PERMANENTLY"}

Last(seq) == seq[Len(seq)]

\* C2: while an event is RECEIVED at most one claim succeeds (no more
\* successful claims than RECEIVED periods), the successful claim sets
\* DELIVERING and locked_at together, and a job whose claim matched nothing
\* has dropped the job without a POST
C2_OneClaimPerReceived ==
    /\ \A e \in DOMAIN store :
           /\ hist[e].claims <= hist[e].received
           /\ store[e].locked_at = hist[e].claims
           /\ store[e].status = "DELIVERING" => store[e].locked_at > 0
    /\ \A j \in Jobs :
           job[j].result = "not_claimed" => job[j].pc = "done" /\ job[j].posts = 0

\* two jobs of the event raced for the first claim: one has it, the other
\* saw no match
C2_Witness ==
    \E j, l \in Jobs :
        /\ job[j].event_id = 1 /\ job[l].event_id = 1
        /\ job[j].result = "claimed" /\ job[j].pc = "post" /\ job[j].attempt = 0
        /\ job[l].result = "not_claimed"
        /\ hist[1].received = 1
        /\ store[1].status = "DELIVERING"

\* C3: at any instant at most one job holds a given event
C3_OneHolder == \A e \in DOMAIN store : Cardinality(Holders(e)) <= 1

\* C4: once an event is DELIVERED or FAILED_PERMANENTLY, no step changes its
\* status or its delivery_attempts
C4_TerminalIsFinal ==
    [][\A e \in DOMAIN store :
           store[e].status \in Terminal =>
               /\ store'[e].status = store[e].status
               /\ store'[e].delivery_attempts = store[e].delivery_attempts]_vars

StatusEdges ==
    { <<"RECEIVED", "DELIVERING">>,
      <<"DELIVERING", "DELIVERED">>,
      <<"DELIVERING", "RECEIVED">>,
      <<"DELIVERING", "FAILED_PERMANENTLY">> }

\* C5: every change of an event's status is one of the four edges
\* RECEIVED -> DELIVERING -> {DELIVERED, RECEIVED, FAILED_PERMANENTLY}
C5_StatusEdges ==
    [][\A e \in DOMAIN store :
           store'[e].status # store[e].status =>
               <<store[e].status, store'[e].status>> \in StatusEdges]_vars

\* C6: an event that is DELIVERED has a last attempt record with
\* success = true and http_status_code = 200
C6_DeliveredHasSuccess ==
    \A e \in DOMAIN store :
        store[e].status = "DELIVERED" =>
            /\ store[e].delivery_attempts # <<>>
            /\ Last(store[e].delivery_attempts).success
            /\ Last(store[e].delivery_attempts).http_status_code = 200

\* an event was delivered on a retry, after a failed attempt
C6_Witness ==
    \E e \in DOMAIN store :
        /\ store[e].status = "DELIVERED"
        /\ Len(store[e].delivery_attempts) >= 2
        /\ ~store[e].delivery_attempts[1].success

\* C7: an event that is FAILED_PERMANENTLY has exactly 5 attempt records,
\* all with success = false
C7_FailedHasFiveFailures ==
    \A e \in DOMAIN store :
        store[e].status = "FAILED_PERMANENTLY" =>
            /\ Len(store[e].delivery_attempts) = max_attempts
            /\ \A i \in 1..Len(store[e].delivery_attempts) :
                   ~store[e].delivery_attempts[i].success

\* C8: the attempt_number values of delivery_attempts, in stored order, are
\* 1, 2, ..., n
C8_AttemptNumbersInOrder ==
    \A e \in DOMAIN store :
        \A i \in 1..Len(store[e].delivery_attempts) :
            store[e].delivery_attempts[i].attempt_number = i

-----------------------------------------------------------------------------
(* Properties of the ingest endpoint (SpecFront, SpecIngest) *)

Answered == {r \in Requests : req[r].status_code # 0}

\* signatures that differ in one byte from the correct one, or are the
\* correct one of a body that differs in one byte
OneByteOff ==
    {"hexdigest_of_other_body", "hexdigest_ascii_changed",
     "hexdigest_non_ascii_changed"}

\* C11: a request whose X-Signature is the hex HMAC-SHA256 of its exact body
\* is answered 200, and a request whose body or signature is one byte off
\* such a pair is answered 401
C11_SignatureDecides ==
    \A r \in Answered :
        /\ req[r].signature = "hexdigest" => req[r].status_code = 200
        /\ req[r].signature \in OneByteOff => req[r].status_code = 401

\* events inserted so far, as the requests report them
RECURSIVE InsertedBy(_)
InsertedBy(S) ==
    IF S = {} THEN 0
    ELSE LET r == CHOOSE q \in S : TRUE
         IN  Cardinality({i \in 1..Len(req[r].response_events) :
                             ~req[r].response_events[i].idempotent})
             + InsertedBy(S \ {r})

\* request r has inserted nothing and scheduled nothing
Untouched(r) ==
    /\ req[r].batch = <<>>
    /\ req[r].response_events = <<>>
    /\ req[r].tasks = <<>>

\* C12: a missing signature is answered 400, a wrong one 401 (whether or not
\* the body is JSON), a correctly signed body that is not JSON 400; none of
\* these requests inserts an event or schedules a job, and every stored
\* event is one that some accepted request reports as inserted
C12_RejectedChangesNothing ==
    /\ \A r \in Requests :
           /\ req[r].pc # "idle" /\ req[r].signature = Null =>
                  req[r].status_code = 400 /\ Untouched(r)
           /\ req[r].signature \in OneByteOff =>
                  req[r].status_code = 401 /\ Untouched(r)
           /\ r \in Answered /\ req[r].signature = "hexdigest"
                  /\ JsonLoadsRaises(req[r].body) =>
                  req[r].status_code = 400 /\ Untouched(r)
    /\ Len(store) = InsertedBy(Requests)

\* the handler of request r has ended on a failure inside the loop
FailedInLoop(r) == req[r].pc = "done" /\ req[r].batch # <<>>

\* C13: when one event of a batch fails, every other event of the batch has
\* still been processed, and every event the request has inserted has its
\* delivery job
C13_SiblingsSurvive ==
    \A r \in Requests :
        FailedInLoop(r) =>
            /\ Len(req[r].response_events) >= Len(req[r].batch) - 1
            /\ \A i \in 1..Len(req[r].response_events) :
                   ~req[r].response_events[i].idempotent =>
                       Scheduled(req[r].response_events[i].event_id) >= 1

\* C14: a 200 response has one result per element of the normalized batch,
\* in input order; a result with idempotent: false names the event stored
\* for its element, a result with idempotent: true names an event stored
\* earlier under the key that its element carries; a single object makes a
\* batch of one and an empty array is answered [] with nothing inserted
C14_OneResultPerElement ==
    \A r \in Requests :
        req[r].status_code = 200 =>
            LET events == Normalize(req[r].body)
            IN  /\ Len(req[r].response_events) = Len(events)
                /\ req[r].body.kind = "object" => Len(events) = 1
                /\ \A i \in 1..Len(events) :
                       LET result == req[r].response_events[i]
                       IN  /\ result.event_id \in DOMAIN store
                           /\ store[result.event_id].idempotency_key = events[i]
                           /\ result.idempotent => events[i] \in Keys

-----------------------------------------------------------------------------
(* Properties of the relay end to end (SpecRelay, SpecAlways500) *)

\* nothing is left to do: every handler has ended and run its background
\* tasks, the queue is empty and no job is running
Quiescent ==
    /\ \A r \in Requests :
           \/ req[r].pc \in {"idle", "done"}
           \/ req[r].pc = "background" /\ req[r].tasks = <<>>
    /\ \A id \in QueueIds : queue[id] = 0
    /\ \A j \in Jobs : job[j].pc \in {"idle", "done"}

\* C15: with a downstream that answers every POST with 200, every event
\* that ingest has inserted is DELIVERED once the handlers, the queue and
\* the worker have nothing left to do
C15_InsertedIsDelivered ==
    Quiescent => \A e \in DOMAIN store : store[e].status = "DELIVERED"

\* jobs that have left the attempt loop without a success
Exhausted == {j \in Jobs : job[j].pc = "final" \/ job[j].result = "failed_permanently"}

RECURSIVE SleptAfter(_)
SleptAfter(n) == IF n = 0 THEN 0 ELSE backoff[n] + SleptAfter(n - 1)

-----------------------------------------------------------------------------
(* Properties of the rate limiter (SpecLimiter) *)

\* C17: in the window that the first increment of a key starts, at most
\* RATE_LIMIT runs of the limiter script return 1
C17_AtMostLimitPerWindow ==
    \A ip \in ClientIps : window[ip].admitted <= RATE_LIMIT

\* a window has had RATE_LIMIT runs that returned 1 and a later call that
\* the script turned down
C17_Witness ==
    /\ call.ip \in ClientIps
    /\ call.limiter = "answered"
    /\ ~call.allowed
    /\ window[call.ip].admitted = RATE_LIMIT
    /\ window[call.ip].calls > RATE_LIMIT

\* a request that is turned down is answered 429 "Rate limit exceeded" and
\* draws no failure type; an admitted one is answered by failure injection
DeniedNeverInjected ==
    call.status_code # 0 =>
        IF call.allowed
        THEN /\ call.injected \in FailureTypes
             /\ call.status_code \in {200, 429, 500}
             /\ call.detail # "Rate limit exceeded"
        ELSE /\ call.injected = Null
             /\ call.status_code = 429
             /\ call.detail = "Rate limit exceeded"

\* C18: of the calls of one IP within one window the first three are
\* admitted and the fourth is denied; a denied request is answered 429
\* "Rate limit exceeded" and never reaches failure injection
C18_FourthIsDenied ==
    /\ call.position \in 1..3 => call.allowed
    /\ call.position = 4 => ~call.allowed
    /\ DeniedNeverInjected

\* C18 as amended: the fourth call is denied when the store has answered
\* every limiter call of the window so far
C18_FourthIsDeniedUnlessError ==
    /\ call.position \in 1..3 => call.allowed
    /\ call.position = 4 /\ call.errors = 0 => ~call.allowed
    /\ DeniedNeverInjected

\* the fourth call of a window without store errors has been denied
C18_Witness ==
    /\ call.position = 4
    /\ call.errors = 0
    /\ ~call.allowed
    /\ call.status_code = 429

\* C19: a request whose limiter call raised RedisError is admitted and
\* answered by failure injection, whatever the count of its key
C19_FailOpen ==
    call.limiter = "error" =>
        /\ call.allowed
        /\ call.injected \in FailureTypes
        /\ call.status_code = Injected(call.injected).status_code
        /\ call.detail = Injected(call.injected).detail

\* the limiter call raised for a key whose count had reached the limit, and
\* the request was admitted
C19_Witness ==
    /\ call.limiter = "error"
    /\ call.allowed
    /\ call.position > RATE_LIMIT
    /\ redis[call.ip].count >= RATE_LIMIT

-----------------------------------------------------------------------------
(* Properties of the search endpoint (SpecSearch) *)

\* C20: a body with both timestamps and to_timestamp not after
\* from_timestamp is answered 422 and the store is not queried; otherwise
\* the events returned satisfy every filter of the body (status equal,
\* event_type equal, received_at from from_timestamp to to_timestamp), and
\* they are at most limit events, taken after skipping skip matches
C20_SearchFilters ==
    search.pc = "done" =>
        LET body  == search.body
            found == Find(body, Len(store))
        IN  IF check_timestamps(body)
            THEN search.status_code = 422 /\ ~search.queried
            ELSE search.status_code = 200 =>
                    /\ \A i \in 1..Len(search.data) :
                           LET doc == store[search.data[i]]
                           IN  /\ body.status # Null => doc.status = body.status
                               /\ body.event_type # Null =>
                                      doc.event_type = body.event_type
                               /\ body.from_timestamp # NoTime =>
                                      doc.received_at >= body.from_timestamp
                               /\ body.to_timestamp # NoTime =>
                                      doc.received_at <= body.to_timestamp
                    /\ Len(search.data) <= body.limit
                    /\ \A i \in 1..Len(search.data) :
                           search.data[i] = found[body.skip + i]

-----------------------------------------------------------------------------
(* Properties of the attempt loop (SpecWorker, SpecOutcomes) *)

RECURSIVE SumAttempts(_)
SumAttempts(S) ==
    IF S = {} THEN 0
    ELSE LET j == CHOOSE i \in S : TRUE
         IN  job[j].attempt + SumAttempts(S \ {j})

\* a job has slept backoff[1] .. backoff[n] after its n failed attempts that
\* were not the last, the retry counter counts these sleeps, and a job whose
\* five attempts have failed has slept 1+2+4+8 seconds after four of them
BackoffSoFar ==
    /\ \A j \in Jobs :
           /\ job[j].attempt <= max_attempts - 1
           /\ job[j].slept = SleptAfter(job[j].attempt)
    /\ \A j \in Exhausted : job[j].attempt = 4 /\ job[j].slept = 1 + 2 + 4 + 8
    /\ metrics.retry_attempts = SumAttempts(Jobs)

\* the step of job j that ends its attempt k = attempt + 1: a failed attempt
\* that is not the last is followed by a sleep of backoff[k] (BACKOFF[k-1],
\* counted from 0) and one increment of the retry counter; a successful
\* attempt and the last attempt are followed by neither
BackoffStep ==
    \A j \in Jobs :
        job[j].pc = "record" /\ job'[j].pc # "record" =>
            IF ~job[j].success /\ job[j].attempt + 1 < max_attempts
            THEN /\ job'[j].slept = job[j].slept + backoff[job[j].attempt + 1]
                 /\ metrics'.retry_attempts = metrics.retry_attempts + 1
            ELSE /\ job'[j].slept = job[j].slept
                 /\ metrics'.retry_attempts = metrics.retry_attempts

\* C21: after failed attempt k the worker sleeps BACKOFF[k-1] seconds only
\* when k is not the last attempt and increments the retry counter once per
\* sleep; a job whose 5 attempts all fail sleeps 1+2+4+8 seconds and
\* increments the retry counter 4 times
C21_BackoffPerFailedAttempt == []BackoffSoFar /\ [][BackoffStep]_vars

\* one job only has run, all its five attempts have failed, and the retry
\* counter stands at 4
C21_Witness ==
    \E j \in Exhausted :
        /\ job[j].posts = max_attempts
        /\ job[j].slept = 15
        /\ metrics.retry_attempts = 4
        /\ \A i \in Jobs \ {j} : job[i].attempt = 0

\* how many steps a job in this position can still take at most
Rank(r) ==
    CASE r.pc = "idle"   -> 2 * max_attempts + 2
      [] r.pc = "post"   -> 2 * (max_attempts - r.attempt) + 1
      [] r.pc = "record" -> 2 * (max_attempts - r.attempt)
      [] r.pc = "final"  -> 1
      [] r.pc = "done"   -> 0

\* a job has made at most max_attempts POSTs, and one that is about to POST
\* has not been answered with 200 before
PostsBounded ==
    \A j \in Jobs :
        /\ job[j].posts <= max_attempts
        /\ job[j].posts <= job[j].attempt + 1
        /\ job[j].pc = "post" => ~job[j].success /\ job[j].posts = job[j].attempt
        /\ job[j].pc = "done" => Rank(job[j]) = 0

\* every step of a job brings it nearer to its end, a job that has ended
\* takes no step, and a POST is made only by a job that no POST of which
\* has been answered with 200
JobDescends ==
    \A j \in Jobs :
        /\ job'[j] # job[j] => Rank(job'[j]) < Rank(job[j])
        /\ job'[j].posts # job[j].posts =>
               /\ job'[j].posts = job[j].posts + 1
               /\ ~job[j].success
               /\ job[j].result # "delivered"
        /\ job[j].success /\ job[j].pc = "record" =>
               job'[j].pc \in {"record", "done"}

\* a job that has started ends, unless the POSTs that the model allows over
\* all jobs are used up while it waits to POST
JobEnds ==
    /\ \A j \in Jobs :
           job[j].pc \notin {"idle", "done"} ~>
               job[j].pc = "done" \/ (job[j].pc = "post" /\ PostsMade = MaxPosts)
    /\ \A j \in Jobs :
           job[j].pc \notin {"idle", "done"} /\ PostsMade - job[j].posts = 0 ~>
               job[j].pc = "done"

\* C22: every worker job terminates, performs at most max_attempts = 5
\* outbound POSTs, and performs no POST after one answered with 200
C22_JobTerminates == []PostsBounded /\ [][JobDescends]_vars /\ JobEnds

\* a job has ended after a POST answered with 200 that followed two failed POSTs
C22_Witness ==
    \E j \in Jobs :
        /\ job[j].pc = "done"
        /\ job[j].result = "delivered"
        /\ job[j].posts = 3
        /\ job[j].success
        /\ PostsMade < MaxPosts

\* every attempt record holds a received status or none, and is a success
\* exactly when it holds 200
RecordsFollowOutcome ==
    \A e \in DOMAIN store :
        \A i \in 1..Len(store[e].delivery_attempts) :
            LET rec == store[e].delivery_attempts[i]
            IN  /\ rec.http_status_code \in OutcomeStatuses \cup {NoStatus}
                /\ rec.success = (rec.http_status_code = 200)

\* the POST of job j ends: a transport error leaves no status and no
\* success, a response leaves its status
OutcomeOfPost ==
    \A j \in Jobs :
        job[j].pc = "post" /\ job'[j].pc = "record" =>
            IF faults' # faults
            THEN job'[j].http_status = NoStatus /\ ~job'[j].success
            ELSE job'[j].http_status \in OutcomeStatuses

\* an event's delivery_attempts change only by the record of the job that
\* ends its attempt: the status of its POST, success iff that is 200, and
\* the event's status written with it is DELIVERED iff success, else RECEIVED
RecordOfOutcome ==
    \A e \in DOMAIN store :
        store'[e].delivery_attempts # store[e].delivery_attempts =>
            \E j \in Jobs :
                /\ job[j].pc = "record" /\ job'[j].pc # "record"
                /\ job[j].event_id = e
                /\ Len(store'[e].delivery_attempts) =
                       Len(store[e].delivery_attempts) + 1
                /\ SubSeq(store'[e].delivery_attempts, 1,
                          Len(store[e].delivery_attempts)) =
                       store[e].delivery_attempts
                /\ LET rec == Last(store'[e].delivery_attempts)
                   IN  /\ rec.http_status_code = job[j].http_status
                       /\ rec.success = (job[j].http_status = 200)
                       /\ rec.attempt_number = job[j].attempt + 1
                       /\ store'[e].status =
                              IF rec.success THEN "DELIVERED" ELSE "RECEIVED"

\* C23: the attempt record of a POST is (200, true) for status 200, (s, false)
\* for any other received status s, other 2xx codes included, (none, false)
\* for a transport error; the event status written with it is DELIVERED iff
\* success, else RECEIVED
C23_RecordFollowsOutcome ==
    []RecordsFollowOutcome /\ [][OutcomeOfPost /\ RecordOfOutcome]_vars

\* the records of a POST answered with 201, of one that met a transport
\* error and of one answered with 200 have been written, in this order
C23_Witness ==
    \E e \in DOMAIN store :
        /\ Len(store[e].delivery_attempts) = 3
        /\ store[e].delivery_attempts[1].http_status_code = 201
        /\ ~store[e].delivery_attempts[1].success
        /\ store[e].delivery_attempts[2].http_status_code = NoStatus
        /\ store[e].delivery_attempts[3].http_status_code = 200
        /\ store[e].delivery_attempts[3].success
        /\ store[e].status = "DELIVERED"

\* job j ends an attempt whose record the store did not take
RecordFailed(j) ==
    /\ job[j].pc = "record"
    /\ job'[j].pc # "record"
    /\ store'[job[j].event_id].delivery_attempts =
           store[job[j].event_id].delivery_attempts

StoreErrorIsFailure ==
    /\ \A j \in Jobs :
           RecordFailed(j) =>
               /\ metrics'.deliveries_successful = metrics.deliveries_successful
               /\ job'[j].result # "delivered"
               /\ store'[job[j].event_id].status = store[job[j].event_id].status
    /\ \A e \in DOMAIN store :
           /\ store[e].status \in {"DELIVERING", "RECEIVED"}
           /\ store'[e].status \in {"DELIVERED", "RECEIVED"}
           /\ store'[e].status # store[e].status
           => Len(store'[e].delivery_attempts) = Len(store[e].delivery_attempts) + 1

\* C24: a store error while recording an attempt is treated as a failure of
\* the attempt: it is not counted as a successful delivery, the job does not
\* end as delivered, and the attempt loop changes the event's status only by
\* the write that appends the attempt record
C24_StoreErrorIsFailure == [][StoreErrorIsFailure]_vars

\* the jobs that have taken a message for event e
JobsFor(e) == {j \in Jobs : job[j].pc # "idle" /\ job[j].event_id = e}

RECURSIVE PostsOf(_)
PostsOf(S) ==
    IF S = {} THEN 0
    ELSE LET j == CHOOSE i \in S : TRUE
         IN  job[j].posts + PostsOf(S \ {j})

\* C25: with no attempt in flight, the length of an event's
\* delivery_attempts is the number of POSTs for the event that have
\* completed, counted over all its jobs
C25_OneRecordPerPost ==
    \A e \in DOMAIN store :
        (\A j \in JobsFor(e) : job[j].pc # "record") =>
            Len(store[e].delivery_attempts) = PostsOf(JobsFor(e))

-----------------------------------------------------------------------------
(* Properties of a job that does not obtain the claim (SpecWorker) *)

\* the results of a job that returns before the attempt loop
Unclaimed == {"invalid_event_id", "claim_error", "not_claimed"}

\* a job that has not obtained the claim has ended without a POST
UnclaimedJobsIdle ==
    \A j \in Jobs :
        job[j].result \in Unclaimed =>
            job[j].pc = "done" /\ job[j].posts = 0 /\ job[j].slept = 0

\* the step of a job that takes a message and does not obtain the claim
\* leaves the store as it is and makes no POST; a malformed id always ends
\* so, with one failed delivery counted; an id that is well formed ends so,
\* with nothing counted, when no event of this id is RECEIVED
UnclaimedStep ==
    \A j \in Jobs :
        job[j].pc = "idle" /\ job'[j].pc # "idle" =>
            LET id == job'[j].event_id
            IN  /\ id < 0 =>
                       /\ job'[j].result = "invalid_event_id"
                       /\ metrics' = [metrics EXCEPT !.deliveries_failed = @ + 1]
                /\ id >= 0 /\ (id \notin DOMAIN store \/ store[id].status # "RECEIVED")
                       /\ faults' = faults =>
                       /\ job'[j].result = "not_claimed"
                       /\ metrics' = metrics
                /\ job'[j].result = "invalid_event_id" => id < 0
                /\ job'[j].result \in Unclaimed =>
                       /\ store' = store
                       /\ PostsMade' = PostsMade
                       /\ job'[j].pc = "done"

\* C26: a job that does not obtain the claim changes nothing: for a
\* malformed id it counts a failed delivery and returns, for a missing event
\* or one that is not RECEIVED it returns; it makes no POST and leaves every
\* event's status, locked_at and delivery_attempts unchanged
C26_UnclaimedChangesNothing == []UnclaimedJobsIdle /\ [][UnclaimedStep]_vars

\* a job has returned on the message of an event that another job had
\* delivered, and the event is as that job left it
C26_Witness ==
    \E j \in Jobs :
        /\ job[j].result = "not_claimed"
        /\ job[j].event_id \in DOMAIN store
        /\ store[job[j].event_id].status = "DELIVERED"
        /\ Len(store[job[j].event_id].delivery_attempts) = 2
        /\ job[j].posts = 0

-----------------------------------------------------------------------------
(* Properties of the events that jobs leave behind (SpecWorker) *)

\* the jobs that claimed their event and have returned
Returned == {j \in Jobs : job[j].pc = "done" /\ job[j].result \notin Unclaimed}

\* C27: no event is left locked: once a job that claimed an event has
\* returned, the event is DELIVERED or FAILED_PERMANENTLY, also when store
\* writes of the job raised errors
C27_NoEventLeftLocked ==
    \A j \in Returned :
        store[job[j].event_id].status \in {"DELIVERED", "FAILED_PERMANENTLY"}

-----------------------------------------------------------------------------
(* Properties of the rate-limit window (SpecLimiter) *)

\* a key lives exactly as long as the window that its first increment
\* started: it expires Window ticks after that increment, whatever came after
KeyExpiresWithWindow ==
    \A ip \in ClientIps :
        IF redis[ip].count > 0
        THEN /\ InWindow(ip)
             /\ redis[ip].expire_at = window[ip].start + Window
        ELSE ~InWindow(ip)

\* the script runs for ip: the expiry is set only by the increment that
\* takes the count to 1, and a request that finds no key is admitted with
\* the count at 1
ExpirySetOnce ==
    \A ip \in ClientIps :
        now' = now /\ redis'[ip] # redis[ip] =>
            /\ redis'[ip].count = redis[ip].count + 1
            /\ redis'[ip].expire_at =
                   IF redis[ip].count = 0 THEN now + Window ELSE redis[ip].expire_at
            /\ call'.ip = ip
            /\ redis[ip].count = 0 =>
                   /\ call'.allowed
                   /\ call'.position = 1
                   /\ call'.limiter = "answered" => call'.current = 1

\* C28: denied requests do not extend a window: the expiry is set only by
\* the increment that takes the count to 1, so WINDOW seconds after the
\* first request of a window the key is gone and the next request is
\* admitted with the count restarted at 1, however many were denied
C28_DeniedDoNotExtend == []KeyExpiresWithWindow /\ [][ExpirySetOnce]_vars

\* two requests of ip were denied in a window that has ended, and the
\* request that followed was admitted as the first of a new window
C28_Witness ==
    \E ip \in ClientIps :
        /\ faults = 0
        /\ window[ip].over = 2
        /\ window[ip].calls = 1
        /\ window[ip].start >= Window
        /\ redis[ip].count = 1
        /\ call.ip = ip /\ call.limiter = "answered"
        /\ call.current = 1 /\ call.allowed

-----------------------------------------------------------------------------
(* Properties of the delivery counter (SpecWorker) *)

\* the events whose status is DELIVERED
Delivered == {e \in DOMAIN store : store[e].status = "DELIVERED"}

\* C29: with no worker job in progress, webhooks_deliveries_successful_total
\* is the number of events whose status is DELIVERED
C29_CounterCountsDelivered ==
    (\A j \in Jobs : job[j].pc \in {"idle", "done"}) =>
        metrics.deliveries_successful = Cardinality(Delivered)

=============================================================================
